---- MODULE Spec2Model ----
(***************************************************************************)
(* Model of api/pay.js: the serverless checkout handler and the remote     *)
(* payments platform it talks to (catalog, customers, orders, payments).   *)
(*                                                                         *)
(* One action is one synchronous segment of the async handler: the code    *)
(* that runs from the moment an awaited remote call settles up to the next *)
(* await (or to the end of the invocation).  A remote call is "pending"    *)
(* between the action that issues it and the action that settles it, so    *)
(* several invocations interleave exactly at the awaits, as in Node.       *)
(*                                                                         *)
(* JavaScript values: undefined/null is Null (the empty tuple); a missing  *)
(* property of an object is a missing field of the record; a string that   *)
(* the code takes apart (customerName) is a sequence of one-character      *)
(* strings; ids are tagged tuples; money as sent by the client is counted  *)
(* in thousandths of a currency unit.                                      *)
(***************************************************************************)
EXTENDS Integers, Sequences, FiniteSets, TLC

\* -------------------------------------------------------------------------
\* Bounds of the model
\* -------------------------------------------------------------------------
\* The invocations of the handler that run, concurrently, in one behaviour.
\* The properties below speak of one invocation or of a pair of them; two
\* invocations give about a million states, a third one multiplies that by
\* several hundred.
NumInvocations == 2

Invocations == 1..NumInvocations

\* -------------------------------------------------------------------------
\* JavaScript helpers
\* -------------------------------------------------------------------------
Null == <<>>

Has(obj, field) == field \in DOMAIN obj

\* process.env.SQUARE_LOCATION_ID and process.env.SQUARE_CATALOG_ITEM_ID
LOCATION_ID == <<"LOC", 1>>

CATALOG_ITEM_ID == <<"ITEM", 1>>

IsWhitespace(c) == c \in {" ", "\t"}

UpperCase ==
    <<"A", "B", "C", "D", "E", "F", "G", "H", "I", "J", "K", "L", "M",
      "N", "O", "P", "Q", "R", "S", "T", "U", "V", "W", "X", "Y", "Z">>

LowerCase ==
    <<"a", "b", "c", "d", "e", "f", "g", "h", "i", "j", "k", "l", "m",
      "n", "o", "p", "q", "r", "s", "t", "u", "v", "w", "x", "y", "z">>

ToLowerChar(c) ==
    IF \E k \in DOMAIN UpperCase : UpperCase[k] = c
    THEN LowerCase[CHOOSE k \in DOMAIN UpperCase : UpperCase[k] = c]
    ELSE c

\* String.prototype.toLowerCase
ToLowerCase(s) == [k \in 1..Len(s) |-> ToLowerChar(s[k])]

RECURSIVE SkipWhitespace(_)
SkipWhitespace(s) ==
    IF s # <<>> /\ IsWhitespace(Head(s)) THEN SkipWhitespace(Tail(s)) ELSE s

\* String.prototype.replace(/\s+/g, '_'): every maximal run of whitespace
\* becomes one underscore
RECURSIVE ReplaceWhitespaceRuns(_)
ReplaceWhitespaceRuns(s) ==
    IF s = <<>> THEN <<>>
    ELSE IF IsWhitespace(Head(s))
         THEN <<"_">> \o ReplaceWhitespaceRuns(SkipWhitespace(Tail(s)))
         ELSE <<Head(s)>> \o ReplaceWhitespaceRuns(Tail(s))

RECURSIVE TrimEnd(_)
TrimEnd(s) ==
    IF s # <<>> /\ IsWhitespace(s[Len(s)]) THEN TrimEnd(SubSeq(s, 1, Len(s) - 1)) ELSE s

\* String.prototype.trim
Trim(s) == TrimEnd(SkipWhitespace(s))

\* String.prototype.split(' '): the list of the pieces between single spaces
RECURSIVE SplitOnSpace(_, _)
SplitOnSpace(s, piece) ==
    IF s = <<>> THEN <<piece>>
    ELSE IF Head(s) = " "
         THEN <<piece>> \o SplitOnSpace(Tail(s), <<>>)
         ELSE SplitOnSpace(Tail(s), Append(piece, Head(s)))

\* Array.prototype.join(' ')
RECURSIVE JoinWithSpace(_)
JoinWithSpace(parts) ==
    IF parts = <<>> THEN <<>>
    ELSE IF Len(parts) = 1 THEN parts[1]
         ELSE parts[1] \o <<" ">> \o JoinWithSpace(Tail(parts))

\* customerName.toLowerCase().replace(/\s+/g, '_')
ReferenceId(customerName) == ReplaceWhitespaceRuns(ToLowerCase(customerName))

\* nameParts[0] || customerName
GivenName(customerName) ==
    LET nameParts == SplitOnSpace(Trim(customerName), <<>>)
    IN  IF nameParts[1] # <<>> THEN nameParts[1] ELSE customerName

\* nameParts.slice(1).join(' ') || ''
FamilyName(customerName) ==
    LET nameParts == SplitOnSpace(Trim(customerName), <<>>)
    IN  JoinWithSpace(Tail(nameParts))

Digits == <<"0", "1", "2", "3", "4", "5", "6", "7", "8", "9">>

\* String(n) for a whole number n >= 0: its decimal digits
RECURSIVE String(_)
String(n) ==
    IF n < 10 THEN <<Digits[n + 1]>>
    ELSE String(n \div 10) \o <<Digits[(n % 10) + 1]>>

\* the exponent e with 2^e <= num / den < 2^(e + 1), for num, den > 0
RECURSIVE FloorLog2(_, _)
FloorLog2(num, den) ==
    IF num >= 2 * den THEN FloorLog2(num, 2 * den) + 1
    ELSE IF num < den THEN FloorLog2(2 * num, den) - 1
    ELSE 0

\* 2^s modulo m
RECURSIVE PowerOfTwoMod(_, _)
PowerOfTwoMod(s, m) == IF s = 0 THEN 1 % m ELSE (2 * PowerOfTwoMod(s - 1, m)) % m

\* x * 100 in double precision, for a decimal x = u / 200 with u odd, whose
\* exact product is a whole number and a half: whether the computed product
\* is below that half.  The number x is held as the nearest double d, a
\* multiple of 2^-s with s = 52 - floor(log2 x); with rho the remainder of
\* u * 2^s by 200, d is x - rho / (200 * 2^s) when rho < 100 and above x
\* otherwise.  The exact 100 * d then lies rho / 2^(g + 1) units in the last
\* place of the product below the half, where g is 6 or 7, the distance of
\* the exponents of the product and of x; it is rounded to the next lower
\* double when that is more than half a unit (an exact half stays, the
\* mantissa of a whole number and a half being even).
ProductBelowHalf(u) ==
    LET s == 52 - FloorLog2(u, 200)
        g == FloorLog2(u, 2) - FloorLog2(u, 200)
        rho == ((u % 200) * PowerOfTwoMod(s, 200)) % 200
    IN  g = 6 /\ rho > 64 /\ rho < 100

\* variant: the fraction is cut off
RoundToMinorUnits_Truncate(thousandths) == thousandths \div 10

\* Math.round(x * 100) for the decimal x = thousandths / 1000, x >= 0.
\* Math.round gives the integer nearest to the double x * 100, a tie going
\* up.  The error of the double product is far below a thousandth of a cent,
\* so it decides the result only when the exact product ends in a half.
RoundToMinorUnits(thousandths) ==
    IF thousandths % 10 = 5 /\ ProductBelowHalf(thousandths \div 5)
    THEN thousandths \div 10
    ELSE (thousandths + 5) \div 10

\* variant: the structured detail is ignored
ErrorDetail_MessageOnly(error) == error.message

\* error.errors?.[0]?.detail || error.message
ErrorDetail(error) ==
    IF Has(error, "errors") /\ Len(error.errors) > 0
       /\ Has(error.errors[1], "detail") /\ error.errors[1].detail # ""
    THEN error.errors[1].detail
    ELSE error.message

\* -------------------------------------------------------------------------
\* Inputs: the requests a client may send and what the platform may answer
\* -------------------------------------------------------------------------
MaxItems == 2

\* the longest customer name of the exhaustive name inputs
MaxNameLen == 3

\* the largest value (in thousandths) of the exhaustive money inputs
MaxThousandths == 1100

Methods == {"OPTIONS", "GET", "POST"}

CustomerNames == {<<"A", " ", "b">>, <<"a", " ", " ", "b">>, <<"L">>}

\* the characters of the exhaustive name inputs: a capital, a small letter
\* and two kinds of whitespace
NameChars == {"B", "o", " ", "\t"}

JaneQPublic ==
    <<"J", "a", "n", "e", " ", "Q", ".", " ", "P", "u", "b", "l", "i", "c">>

BobLeePadded ==
    <<" ", " ", "B", "o", "b", " ", " ", " ", "L", "e", "e", " ">>

\* every name of at most MaxNameLen characters, and the two long ones
NameInputs ==
    UNION {[1..n -> NameChars] : n \in 0..MaxNameLen}
    \cup {JaneQPublic, BobLeePadded}

ItemLatte == [name |-> "Latte", quantity |-> 2, price |-> 5000]

ItemTea == [name |-> "Tea", quantity |-> 1, price |-> 12345, comment |-> "hot"]

ItemAt(k) == IF k % 2 = 1 THEN ItemLatte ELSE ItemTea

ItemLists == {[k \in 1..n |-> ItemAt(k)] : n \in 0..MaxItems}

DefaultName == <<"A", " ", "b">>

DefaultItems == <<ItemLatte>>

BaseBody == [sourceId |-> "tok1", amount |-> 10000, pickupDate |-> "2024-06-01"]

FullBody(name, items) == BaseBody @@ [customerName |-> name, items |-> items]

Without(body, field) == [f \in DOMAIN body \ {field} |-> body[f]]

\* req.body as the client sent it: every name with the default items, every
\* item list with the default name, and bodies that lack customerName, items,
\* both, or amount
Bodies ==
    {FullBody(n, DefaultItems) : n \in CustomerNames}
    \cup {FullBody(DefaultName, l) : l \in ItemLists}
    \cup {BaseBody, BaseBody @@ [customerName |-> DefaultName],
          BaseBody @@ [items |-> DefaultItems],
          Without(FullBody(DefaultName, DefaultItems), "amount")}

\* req: a request without a body has no body property
Requests ==
    {[method |-> m] : m \in Methods}
    \cup {[method |-> m, body |-> FullBody(DefaultName, DefaultItems)] :
            m \in Methods \ {"POST"}}
    \cup {[method |-> "POST", body |-> b] : b \in Bodies}

ItemScone == [name |-> "Scone", quantity |-> 12, price |-> 2500, comment |-> ""]

\* an item without a comment, one with a comment, one with an empty comment
ItemInputs == {ItemLatte, ItemTea, ItemScone}

\* POST requests that differ in the items only: every list of at most
\* MaxItems items of ItemInputs
ItemRequests ==
    {[method |-> "POST", body |-> FullBody(DefaultName, l)] :
        l \in UNION {[1..n -> ItemInputs] : n \in 0..MaxItems}}

\* every value from 0.000 to MaxThousandths / 1000, and 9.999 and 12.345
MoneyInputs == 0..MaxThousandths \cup {9999, 12345}

\* POST requests that differ in the price of the item or in the amount
MoneyRequests ==
    {[method |-> "POST",
      body |-> FullBody(DefaultName, <<[ItemLatte EXCEPT !.price = v]>>)] :
        v \in MoneyInputs}
    \cup {[method |-> "POST",
           body |-> [FullBody(DefaultName, DefaultItems) EXCEPT !.amount = v]] :
        v \in MoneyInputs}

\* POST requests that differ in the customer name only
NameRequests ==
    {[method |-> "POST", body |-> FullBody(n, DefaultItems)] : n \in NameInputs}

VariationA == <<"VAR", 1>>

VariationB == <<"VAR", 2>>

RemoteErrors ==
    {[message |-> "Bad request"],
     [message |-> "Bad request", errors |-> <<[detail |-> "Card declined"]>>]}

\* what retrieveCatalogObject may settle with: a rejection, or a response
\* whose result.object is missing, has no itemData, or has a variation list
CatalogOutcomes ==
    {[outcome |-> "failed", error |-> e] : e \in RemoteErrors}
    \cup {[outcome |-> "ok", result |-> r] :
            r \in {[relatedObjects |-> <<>>],
                   [object |-> [id |-> CATALOG_ITEM_ID]],
                   [object |-> [id |-> CATALOG_ITEM_ID, itemData |-> [name |-> "Meal"]]],
                   [object |-> [id |-> CATALOG_ITEM_ID, itemData |-> [variations |-> <<>>]]],
                   [object |-> [id |-> CATALOG_ITEM_ID,
                                itemData |-> [variations |-> <<[id |-> VariationA]>>]]],
                   [object |-> [id |-> CATALOG_ITEM_ID,
                                itemData |-> [variations |->
                                    <<[id |-> VariationA], [id |-> VariationB]>>]]]}}

PaymentStatuses == {"COMPLETED", "APPROVED"}

\* -------------------------------------------------------------------------
\* State
\* -------------------------------------------------------------------------
VARIABLES
    pc,         \* per invocation: where the handler is
    req,        \* per invocation: the request it was called with
    local,      \* per invocation: itemVariationId, customerId, order
    res,        \* per invocation: the response object
    calls,      \* per invocation: the remote calls it issued, in order
    customers,  \* platform: customer records, in creation order
    orders,     \* platform: order records
    payments,   \* platform: payment records
    uuidCount   \* number of crypto.randomUUID() values drawn so far

vars == <<pc, req, local, res, calls, customers, orders, payments, uuidCount>>

\* -------------------------------------------------------------------------
\* The response object (res) and the remote-call record of an invocation
\* -------------------------------------------------------------------------
NewResponse == [headers |-> {}, statusCode |-> 200, body |-> Null, sent |-> 0]

\* variant: the Allow-Headers header is not set
CorsHeaders_NoAllowHeaders ==
    {<<"Access-Control-Allow-Origin", "*">>,
     <<"Access-Control-Allow-Methods", "POST, OPTIONS">>}

\* the three res.setHeader calls at the top of the handler
CorsHeaders ==
    {<<"Access-Control-Allow-Origin", "*">>,
     <<"Access-Control-Allow-Methods", "POST, OPTIONS">>,
     <<"Access-Control-Allow-Headers", "Content-Type">>}

SetHeaders(rs, hs) == [rs EXCEPT !.headers = @ \cup hs]

\* res.status(code)
Status(rs, code) == [rs EXCEPT !.statusCode = code]

\* res.end(): sends the response with an empty body
End(rs) == [rs EXCEPT !.sent = @ + 1]

\* res.json(body): sends the response with that body
Json(rs, body) == [rs EXCEPT !.body = body, !.sent = @ + 1]

\* crypto.randomUUID(): the n-th value drawn is unlike every other one
RandomUUID(n) == <<"uuid", n>>

Pending(api, args) == [api |-> api, args |-> args, outcome |-> "pending"]

\* the last call of cs settles: extra holds what the handler got back
Settle(cs, outcome, extra) ==
    [cs EXCEPT ![Len(cs)] = [api |-> @.api, args |-> @.args, outcome |-> outcome] @@ extra]

\* -------------------------------------------------------------------------
\* Pure parts of the handler
\* -------------------------------------------------------------------------
\* variant: the test for methods other than POST is missing
MethodDispatch_NoReject(method) ==
    IF method = "OPTIONS" THEN "preflight" ELSE "process"

\* variant: the test for OPTIONS is missing
MethodDispatch_NoPreflight(method) ==
    IF method # "POST" THEN "reject" ELSE "process"

\* the two method tests at the top of the handler
MethodDispatch(method) ==
    IF method = "OPTIONS" THEN "preflight"
    ELSE IF method # "POST" THEN "reject"
    ELSE "process"

\* variant: an item without variations is sold under its own id
getItemVariationId_ItemFallback(settled) ==
    IF settled.outcome = "failed" THEN Null
    ELSE LET result == settled.result
         IN  IF Has(result, "object") /\ Has(result.object, "itemData")
                /\ Has(result.object.itemData, "variations")
                /\ Len(result.object.itemData.variations) > 0
             THEN result.object.itemData.variations[1].id
             ELSE CATALOG_ITEM_ID

\* getItemVariationId: the id of the first variation, null when the call
\* failed or the item has no variation
getItemVariationId(settled) ==
    IF settled.outcome = "failed" THEN Null
    ELSE LET result == settled.result
         IN  IF Has(result, "object") /\ Has(result.object, "itemData")
                /\ Has(result.object.itemData, "variations")
                /\ Len(result.object.itemData.variations) > 0
             THEN result.object.itemData.variations[1].id
             ELSE Null

\* variant: res.status(500) is missing
CatchResponse_NoStatus(rs, error) ==
    Json(rs, [success |-> FALSE, error |-> ErrorDetail(error)])

\* the catch block of the handler
CatchResponse(rs, error) ==
    Json(Status(rs, 500), [success |-> FALSE, error |-> ErrorDetail(error)])

\* variant: the search filter takes the name as typed, capitals kept
SearchRequest_NoLowerCase(customerName) ==
    [query |-> [filter |-> [referenceId |-> [exact |-> ReplaceWhitespaceRuns(customerName)]]]]

\* the argument of customersApi.searchCustomers
SearchRequest(customerName) ==
    [query |-> [filter |-> [referenceId |-> [exact |-> ReferenceId(customerName)]]]]

\* variant: the idempotency key is derived from the customer name
CustomerRequest_KeyFromName(customerName, uuid) ==
    [givenName |-> GivenName(customerName),
     familyName |-> FamilyName(customerName),
     referenceId |-> ReferenceId(customerName),
     idempotencyKey |-> <<"name">> \o ReferenceId(customerName)]

\* the argument of customersApi.createCustomer
CustomerRequest(customerName, uuid) ==
    [givenName |-> GivenName(customerName),
     familyName |-> FamilyName(customerName),
     referenceId |-> ReferenceId(customerName),
     idempotencyKey |-> uuid]

\* items.map(item => ({...}))
\* variant: the suffix is appended whether or not there is a comment
LineItem_AlwaysSuffix(item, itemVariationId) ==
    [quantity |-> String(item.quantity),
     catalogObjectId |-> itemVariationId,
     basePriceMoney |-> [amount |-> RoundToMinorUnits(item.price), currency |-> "USD"],
     note |-> <<item.name, " - ", IF Has(item, "comment") THEN item.comment ELSE "undefined">>]

\* one element of lineItems
LineItem(item, itemVariationId) ==
    [quantity |-> String(item.quantity),
     catalogObjectId |-> itemVariationId,
     basePriceMoney |-> [amount |-> RoundToMinorUnits(item.price), currency |-> "USD"],
     note |-> IF Has(item, "comment") /\ item.comment # ""
              THEN <<item.name, " - ", item.comment>>
              ELSE <<item.name>>]

\* variant: the idempotency key is derived from the request (its payment
\* source token) instead of being drawn afresh
OrderRequest_KeyFromRequest(body, loc, uuid) ==
    [order |-> [locationId |-> LOCATION_ID,
                customerId |-> loc.customerId,
                lineItems |-> [k \in 1..Len(body.items) |->
                                  LineItem(body.items[k], loc.itemVariationId)],
                state |-> "OPEN"],
     idempotencyKey |-> <<"order", body.sourceId>>]

\* the argument of ordersApi.createOrder
OrderRequest(body, loc, uuid) ==
    [order |-> [locationId |-> LOCATION_ID,
                customerId |-> loc.customerId,
                lineItems |-> [k \in 1..Len(body.items) |->
                                  LineItem(body.items[k], loc.itemVariationId)],
                state |-> "OPEN"],
     idempotencyKey |-> uuid]

\* variant: the payment is not linked to the order
PaymentRequest_NoOrder(body, loc, order, uuid) ==
    [sourceId |-> body.sourceId,
     idempotencyKey |-> uuid,
     amountMoney |-> [amount |-> RoundToMinorUnits(body.amount), currency |-> "USD"],
     locationId |-> LOCATION_ID,
     orderId |-> Null,
     customerId |-> loc.customerId,
     note |-> <<"Pickup: ", body.pickupDate>>]

\* variant: the payment is not linked to the customer
PaymentRequest_NoCustomer(body, loc, order, uuid) ==
    [sourceId |-> body.sourceId,
     idempotencyKey |-> uuid,
     amountMoney |-> [amount |-> RoundToMinorUnits(body.amount), currency |-> "USD"],
     locationId |-> LOCATION_ID,
     orderId |-> order.id,
     customerId |-> Null,
     note |-> <<"Pickup: ", body.pickupDate>>]

\* the argument of paymentsApi.createPayment
PaymentRequest(body, loc, order, uuid) ==
    [sourceId |-> body.sourceId,
     idempotencyKey |-> uuid,
     amountMoney |-> [amount |-> RoundToMinorUnits(body.amount), currency |-> "USD"],
     locationId |-> LOCATION_ID,
     orderId |-> order.id,
     customerId |-> loc.customerId,
     note |-> <<"Pickup: ", body.pickupDate>>]

\* the body of the final res.json
SuccessBody(payment, order) ==
    [success |-> TRUE, paymentId |-> payment.id, orderId |-> order.id,
     status |-> payment.status]

\* -------------------------------------------------------------------------
\* The platform
\* -------------------------------------------------------------------------
\* A call takes effect on the platform at the moment it settles, and a call
\* that fails has no effect.
\* searchCustomers with an exact referenceId filter: the matching records
SearchCustomers(request) ==
    SelectSeq(customers,
              LAMBDA c : c.referenceId = request.query.filter.referenceId.exact)

\* variant: the most recent match is taken
FirstMatch_Last(found) == found[Len(found)].id

\* searchResponse.result.customers[0].id
FirstMatch(found) == found[1].id

\* a creation request whose idempotency key the platform has seen before is
\* answered with the record created then, and creates nothing
Known(records, fresh) ==
    SelectSeq(records, LAMBDA r : r.idempotencyKey = fresh.idempotencyKey)

Stored(records, fresh) ==
    IF Known(records, fresh) # <<>> THEN Known(records, fresh)[1] ELSE fresh

Store(records, fresh) ==
    IF Known(records, fresh) # <<>> THEN records ELSE Append(records, fresh)

NewCustomer(request) ==
    [id |-> <<"CUST", Len(customers) + 1>>,
     givenName |-> request.givenName,
     familyName |-> request.familyName,
     referenceId |-> request.referenceId,
     idempotencyKey |-> request.idempotencyKey]

NewOrder(request) ==
    [id |-> <<"ORDER", Len(orders) + 1>>,
     locationId |-> request.order.locationId,
     customerId |-> request.order.customerId,
     lineItems |-> request.order.lineItems,
     state |-> request.order.state,
     idempotencyKey |-> request.idempotencyKey]

NewPayment(request, status) ==
    [id |-> <<"PAY", Len(payments) + 1>>,
     sourceId |-> request.sourceId,
     amountMoney |-> request.amountMoney,
     orderId |-> request.orderId,
     customerId |-> request.customerId,
     note |-> request.note,
     status |-> status,
     idempotencyKey |-> request.idempotencyKey]

\* -------------------------------------------------------------------------
\* Initial state: no invocation has started
\* -------------------------------------------------------------------------
NewLocal == [itemVariationId |-> Null, customerId |-> Null, order |-> Null]

\* the customer records the platform holds at the start: none, or two with
\* the same reference id (left by earlier invocations)
InitialCustomers ==
    {<<>>,
     <<[id |-> <<"CUST", 1>>, givenName |-> <<"A">>, familyName |-> <<"b">>,
        referenceId |-> <<"a", "_", "b">>, idempotencyKey |-> <<"uuid", -1>>],
       [id |-> <<"CUST", 2>>, givenName |-> <<"a">>, familyName |-> <<" ", "b">>,
        referenceId |-> <<"a", "_", "b">>, idempotencyKey |-> <<"uuid", -2>>]>>}

Init ==
    /\ pc = [i \in Invocations |-> "idle"]
    /\ req = [i \in Invocations |-> [method |-> "none"]]
    /\ local = [i \in Invocations |-> NewLocal]
    /\ res = [i \in Invocations |-> NewResponse]
    /\ calls = [i \in Invocations |-> <<>>]
    /\ customers \in InitialCustomers
    /\ orders = <<>>
    /\ payments = <<>>
    /\ uuidCount = 0

\* -------------------------------------------------------------------------
\* Steps of the handler shared by several actions
\* -------------------------------------------------------------------------
\* the invocation ends: with a response sent (pc "done"), or with the
\* handler's promise rejected (pc "rejected")
Finish(i, how, cs, loc, rs) ==
    /\ pc' = [pc EXCEPT ![i] = how]
    /\ calls' = [calls EXCEPT ![i] = cs]
    /\ local' = [local EXCEPT ![i] = loc]
    /\ res' = [res EXCEPT ![i] = rs]
    /\ UNCHANGED uuidCount

\* a remote call is issued and awaited
Await(i, at, cs, loc, api, args, uuids) ==
    /\ pc' = [pc EXCEPT ![i] = at]
    /\ calls' = [calls EXCEPT ![i] = Append(cs, Pending(api, args))]
    /\ local' = [local EXCEPT ![i] = loc]
    /\ uuidCount' = uuidCount + uuids
    /\ UNCHANGED res

\* the handler after getOrCreateCustomer returned: it builds the order
\* request (items.map throws a TypeError when items is missing) and calls
\* createOrder
CreateOrder(i, cs, loc) ==
    LET body == req[i].body
    IN  IF ~Has(body, "items")
        THEN Finish(i, "done", cs, loc,
                    CatchResponse(res[i],
                        [message |-> "Cannot read properties of undefined (reading 'map')"]))
        ELSE Await(i, "order", cs, loc, "createOrder",
                   OrderRequest(body, loc, RandomUUID(uuidCount + 1)), 1)

\* variant: customerName.toLowerCase() is evaluated outside the try block of
\* getOrCreateCustomer, so its TypeError reaches the catch block of the handler
GetOrCreateCustomer_Throws(i, cs, loc) ==
    LET body == req[i].body
    IN  IF ~Has(body, "customerName")
        THEN Finish(i, "done", cs, loc,
                    CatchResponse(res[i],
                        [message |-> "Cannot read properties of undefined (reading 'toLowerCase')"]))
        ELSE Await(i, "search", cs, loc, "searchCustomers",
                   SearchRequest(body.customerName), 0)

\* variant: getOrCreateCustomer is called without await, so createOrder is
\* issued while searchCustomers is still pending
GetOrCreateCustomer_NotAwaited(i, cs, loc) ==
    LET body == req[i].body
    IN  IF ~Has(body, "customerName") \/ ~Has(body, "items")
        THEN CreateOrder(i, cs, [loc EXCEPT !.customerId = Null])
        ELSE Await(i, "order",
                   Append(cs, Pending("searchCustomers", SearchRequest(body.customerName))),
                   loc, "createOrder",
                   OrderRequest(body, loc, RandomUUID(uuidCount + 1)), 1)

\* the handler after createOrder returned: it builds the payment request
\* (BigInt(Math.round(amount * 100)) throws a RangeError when amount is
\* missing, the product being NaN) and calls createPayment
CreatePayment(i, cs, loc) ==
    LET body == req[i].body
    IN  IF ~Has(body, "amount")
        THEN Finish(i, "done", cs, loc,
                    CatchResponse(res[i],
                        [message |-> "The number NaN cannot be converted to a BigInt"]))
        ELSE Await(i, "payment", cs, loc, "createPayment",
                   PaymentRequest(body, loc, loc.order, RandomUUID(uuidCount + 1)), 1)

\* getOrCreateCustomer up to its first await: customerName.toLowerCase()
\* throws when customerName is missing, and the catch block returns null
GetOrCreateCustomer(i, cs, loc) ==
    LET body == req[i].body
    IN  IF ~Has(body, "customerName")
        THEN CreateOrder(i, cs, [loc EXCEPT !.customerId = Null])
        ELSE Await(i, "search", cs, loc, "searchCustomers",
                   SearchRequest(body.customerName), 0)

\* -------------------------------------------------------------------------
\* Actions
\* -------------------------------------------------------------------------
\* The handler runs on request r up to its first await.
Handler(i, r) ==
        /\ req' = [req EXCEPT ![i] = r]
        /\ LET rs == SetHeaders(res[i], CorsHeaders)
               route == MethodDispatch(r.method)
           IN  IF route = "preflight"
               THEN Finish(i, "done", calls[i], local[i], End(Status(rs, 200)))
               ELSE IF route = "reject"
               THEN Finish(i, "done", calls[i], local[i],
                           Json(Status(rs, 405), [error |-> "Method not allowed"]))
               ELSE IF ~Has(r, "body")
               THEN \* destructuring undefined throws outside the try block
                    Finish(i, "rejected", calls[i], local[i], rs)
               ELSE /\ pc' = [pc EXCEPT ![i] = "catalog"]
                    /\ calls' = [calls EXCEPT ![i] =
                                    Append(@, Pending("retrieveCatalogObject",
                                        [objectId |-> CATALOG_ITEM_ID,
                                         includeRelatedObjects |-> TRUE]))]
                    /\ res' = [res EXCEPT ![i] = rs]
                    /\ UNCHANGED <<local, uuidCount>>
        /\ UNCHANGED <<customers, orders, payments>>

\* The handler is invoked with a request.  Invocations are numbered in the
\* order in which they start.
HandlerStart(i) ==
    /\ pc[i] = "idle"
    /\ i > 1 => pc[i - 1] # "idle"
    /\ \E r \in Requests : Handler(i, r)

\* The handler is invoked when no other invocation is under way.
SequentialStart(i) ==
    /\ pc[i] = "idle"
    /\ i > 1 => pc[i - 1] # "idle"
    /\ \A j \in Invocations \ {i} : pc[j] \in {"idle", "done", "rejected"}
    /\ \E r \in Requests : Handler(i, r)

\* The handler is invoked once, with a POST carrying any list of ItemRequests.
OrderedStart(i) ==
    /\ i = 1
    /\ pc[i] = "idle"
    /\ \E r \in ItemRequests : Handler(i, r)

\* The handler is invoked once, with a POST carrying any name of NameInputs.
NamedStart(i) ==
    /\ i = 1
    /\ pc[i] = "idle"
    /\ \E r \in NameRequests : Handler(i, r)

\* retrieveCatalogObject settles; the handler either answers 500 or goes
\* on to resolve the customer
CatalogReturn(i) ==
    /\ pc[i] = "catalog"
    /\ \E settled \in CatalogOutcomes :
        LET cs == Settle(calls[i], settled.outcome,
                         [f \in DOMAIN settled \ {"outcome"} |-> settled[f]])
            itemVariationId == getItemVariationId(settled)
        IN  IF itemVariationId = Null
            THEN Finish(i, "done", cs, local[i],
                        Json(Status(res[i], 500),
                             [success |-> FALSE, error |-> "Item variation not configured"]))
            ELSE GetOrCreateCustomer(i, cs,
                        [local[i] EXCEPT !.itemVariationId = itemVariationId])
    /\ UNCHANGED <<req, customers, orders, payments>>

\* searchCustomers settles: a failure is caught and gives null, a match
\* gives the id of the first match, no match leads to createCustomer
SearchReturn(i) ==
    /\ pc[i] = "search"
    /\ LET request == calls[i][Len(calls[i])].args
           found == SearchCustomers(request)
           name == req[i].body.customerName
       IN  \/ CreateOrder(i, Settle(calls[i], "failed", <<>>),
                          [local[i] EXCEPT !.customerId = Null])
           \/ /\ Len(found) > 0
              /\ CreateOrder(i, Settle(calls[i], "ok", [found |-> Len(found)]),
                             [local[i] EXCEPT !.customerId = FirstMatch(found)])
           \/ /\ Len(found) = 0
              /\ Await(i, "create", Settle(calls[i], "ok", [found |-> 0]), local[i],
                       "createCustomer",
                       CustomerRequest(name, RandomUUID(uuidCount + 1)), 1)
    /\ UNCHANGED <<req, customers, orders, payments>>

\* createCustomer settles: a failure is caught and gives null
CreateCustomerReturn(i) ==
    /\ pc[i] = "create"
    /\ LET request == calls[i][Len(calls[i])].args
           customer == Stored(customers, NewCustomer(request))
       IN  \/ /\ CreateOrder(i, Settle(calls[i], "failed", <<>>),
                             [local[i] EXCEPT !.customerId = Null])
              /\ UNCHANGED customers
           \/ /\ customers' = Store(customers, NewCustomer(request))
              /\ CreateOrder(i, Settle(calls[i], "ok", [id |-> customer.id]),
                             [local[i] EXCEPT !.customerId = customer.id])
    /\ UNCHANGED <<req, orders, payments>>

\* createOrder settles: a failure goes to the catch block, a success leads
\* to createPayment
CreateOrderReturn(i) ==
    /\ pc[i] = "order"
    /\ LET request == calls[i][Len(calls[i])].args
           order == Stored(orders, NewOrder(request))
       IN  \/ /\ \E error \in RemoteErrors :
                    Finish(i, "done", Settle(calls[i], "failed", [error |-> error]),
                           local[i], CatchResponse(res[i], error))
              /\ UNCHANGED orders
           \/ /\ orders' = Store(orders, NewOrder(request))
              /\ CreatePayment(i, Settle(calls[i], "ok", [id |-> order.id]),
                               [local[i] EXCEPT !.order = order])
    /\ UNCHANGED <<req, customers, payments>>

\* createPayment settles: a failure goes to the catch block, a success is
\* answered with the ids and the status
CreatePaymentReturn(i) ==
    /\ pc[i] = "payment"
    /\ LET request == calls[i][Len(calls[i])].args
       IN  \/ /\ \E error \in RemoteErrors :
                    Finish(i, "done", Settle(calls[i], "failed", [error |-> error]),
                           local[i], CatchResponse(res[i], error))
              /\ UNCHANGED payments
           \/ \E status \in PaymentStatuses :
                LET payment == Stored(payments, NewPayment(request, status))
                IN  /\ payments' = Store(payments, NewPayment(request, status))
                    /\ Finish(i, "done",
                              Settle(calls[i], "ok", [id |-> payment.id, status |-> status]),
                              local[i], Json(res[i], SuccessBody(payment, local[i].order)))
    /\ UNCHANGED <<req, customers, orders>>

Next ==
    \E i \in Invocations :
        \/ HandlerStart(i)
        \/ CatalogReturn(i)
        \/ SearchReturn(i)
        \/ CreateCustomerReturn(i)
        \/ CreateOrderReturn(i)
        \/ CreatePaymentReturn(i)

Spec == Init /\ [][Next]_vars

\* The handler is invoked once, with a POST carrying any price or amount of
\* MoneyInputs.
PricedStart(i) ==
    /\ i = 1
    /\ pc[i] = "idle"
    /\ \E r \in MoneyRequests : Handler(i, r)

\* The invocations run one after another, without overlapping.
NextSequential ==
    \E i \in Invocations :
        \/ SequentialStart(i)
        \/ CatalogReturn(i)
        \/ SearchReturn(i)
        \/ CreateCustomerReturn(i)
        \/ CreateOrderReturn(i)
        \/ CreatePaymentReturn(i)

SpecSequential == Init /\ [][NextSequential]_vars

\* One invocation of the handler on every item list of ItemRequests: the
\* specification under which the line items of the order are checked.
NextItems ==
    \E i \in Invocations :
        \/ OrderedStart(i)
        \/ CatalogReturn(i)
        \/ SearchReturn(i)
        \/ CreateCustomerReturn(i)
        \/ CreateOrderReturn(i)
        \/ CreatePaymentReturn(i)

SpecItems == Init /\ [][NextItems]_vars

\* One invocation of the handler on every price and amount of MoneyInputs:
\* the specification under which the conversion to minor units is checked.
NextMoney ==
    \E i \in Invocations :
        \/ PricedStart(i)
        \/ CatalogReturn(i)
        \/ SearchReturn(i)
        \/ CreateCustomerReturn(i)
        \/ CreateOrderReturn(i)
        \/ CreatePaymentReturn(i)

SpecMoney == Init /\ [][NextMoney]_vars

\* One invocation of the handler on every name of NameInputs: the
\* specification under which the derivation of the reference id is checked.
NextNames ==
    \E i \in Invocations :
        \/ NamedStart(i)
        \/ CatalogReturn(i)
        \/ SearchReturn(i)
        \/ CreateCustomerReturn(i)
        \/ CreateOrderReturn(i)
        \/ CreatePaymentReturn(i)

SpecNames == Init /\ [][NextNames]_vars

\* -------------------------------------------------------------------------
\* Properties
\* -------------------------------------------------------------------------
Started(i) == pc[i] # "idle"

\* the calls to one API among the calls cs
CallsTo(cs, api) == SelectSeq(cs, LAMBDA c : c.api = api)

Issued(i, api) == CallsTo(calls[i], api) # <<>>

\* a call that settled with the given outcome
Settled(cs, api, outcome) ==
    SelectSeq(cs, LAMBDA c : c.api = api /\ c.outcome = outcome)

\* the detail of a thrown error: the first structured detail of the
\* platform when there is one, the message otherwise
ThrownDetail(error) ==
    IF Has(error, "errors") THEN error.errors[1].detail ELSE error.message

AllCorsHeaders(rs) ==
    /\ <<"Access-Control-Allow-Origin", "*">> \in rs.headers
    /\ <<"Access-Control-Allow-Methods", "POST, OPTIONS">> \in rs.headers
    /\ <<"Access-Control-Allow-Headers", "Content-Type">> \in rs.headers

\* C1: an invocation whose method is neither POST nor OPTIONS is answered
\* with status 405 and body {error: "Method not allowed"}, and it issues no
\* remote call at any point
C1_MethodNotAllowed ==
    \A i \in Invocations :
        (Started(i) /\ req[i].method \notin {"POST", "OPTIONS"}) =>
            /\ pc[i] = "done"
            /\ res[i].sent = 1
            /\ res[i].statusCode = 405
            /\ res[i].body = [error |-> "Method not allowed"]
            /\ calls[i] = <<>>

\* a GET was answered 405 while another invocation has a remote call pending
C1_Witness ==
    \E i, j \in Invocations :
        /\ req[i].method = "GET" /\ pc[i] = "done" /\ res[i].statusCode = 405
        /\ pc[j] = "payment"

\* C2: an invocation whose method is OPTIONS is answered with status 200 and
\* an empty body, with the three CORS headers set, whatever its body and the
\* state of the platform, and it issues no remote call
C2_Preflight ==
    \A i \in Invocations :
        (Started(i) /\ req[i].method = "OPTIONS") =>
            /\ pc[i] = "done"
            /\ res[i].sent = 1
            /\ res[i].statusCode = 200
            /\ res[i].body = Null
            /\ AllCorsHeaders(res[i])
            /\ calls[i] = <<>>

\* an OPTIONS request that carries a body was answered while the platform
\* already holds an order
C2_Witness ==
    \E i \in Invocations :
        /\ req[i].method = "OPTIONS" /\ Has(req[i], "body")
        /\ pc[i] = "done" /\ res[i].statusCode = 200
        /\ orders # <<>>

\* the catalog lookup of cs failed remotely, or returned no variation
CatalogUnresolved(cs) ==
    /\ cs # <<>>
    /\ cs[1].api = "retrieveCatalogObject"
    /\ \/ cs[1].outcome = "failed"
       \/ /\ cs[1].outcome = "ok"
          /\ \/ ~Has(cs[1].result, "object")
             \/ ~Has(cs[1].result.object, "itemData")
             \/ ~Has(cs[1].result.object.itemData, "variations")
             \/ cs[1].result.object.itemData.variations = <<>>

\* C3: a POST whose catalog lookup fails remotely or returns an item without
\* variations is answered with status 500 and body {success: false, error:
\* "Item variation not configured"}, and no customer, order or payment call
\* is issued
C3_CatalogUnresolved ==
    \A i \in Invocations :
        CatalogUnresolved(calls[i]) =>
            /\ pc[i] = "done"
            /\ res[i].sent = 1
            /\ res[i].statusCode = 500
            /\ res[i].body = [success |-> FALSE, error |-> "Item variation not configured"]
            /\ Len(calls[i]) = 1

\* one POST met a failed catalog lookup, another one an item whose variation
\* list is empty
C3_Witness ==
    \E i, j \in Invocations :
        /\ pc[i] = "done" /\ calls[i] # <<>> /\ calls[i][1].outcome = "failed"
        /\ pc[j] = "done" /\ calls[j] # <<>> /\ calls[j][1].outcome = "ok"
        /\ Has(calls[j][1].result, "object")
        /\ Has(calls[j][1].result.object, "itemData")
        /\ Has(calls[j][1].result.object.itemData, "variations")
        /\ calls[j][1].result.object.itemData.variations = <<>>
        /\ res[j].statusCode = 500

\* C9: every response is sent with the three CORS headers set
C9_CorsOnEveryResponse ==
    \A i \in Invocations : res[i].sent > 0 => AllCorsHeaders(res[i])

\* a success response and a response of the catch block have both been sent
C9_Witness ==
    \E i, j \in Invocations :
        /\ res[i].sent = 1 /\ res[i].statusCode = 200 /\ Issued(i, "createPayment")
        /\ res[j].sent = 1 /\ res[j].statusCode = 500 /\ Issued(j, "createOrder")

\* C4: a POST whose order creation fails issues no payment call and is
\* answered with status 500 and body {success: false, error: <thrown detail>}
C4_OrderFailure ==
    \A i \in Invocations :
        LET failed == Settled(calls[i], "createOrder", "failed")
        IN  failed # <<>> =>
                /\ ~Issued(i, "createPayment")
                /\ pc[i] = "done"
                /\ res[i].sent = 1
                /\ res[i].statusCode = 500
                /\ res[i].body = [success |-> FALSE, error |-> ThrownDetail(failed[1].error)]

\* an order creation was rejected with a structured detail and the response
\* carries that detail
C4_Witness ==
    \E i \in Invocations :
        LET failed == Settled(calls[i], "createOrder", "failed")
        IN  /\ failed # <<>>
            /\ Has(failed[1].error, "errors")
            /\ pc[i] = "done"
            /\ res[i].body.error = "Card declined"

\* C5: a POST whose payment creation fails after its order was created is
\* answered with status 500 and the thrown detail, the response does not
\* mention the order, the failed payment call is the last remote call of the
\* invocation, and the order stays on the platform in state OPEN
C5_PaymentFailure ==
    \A i \in Invocations :
        LET failed == Settled(calls[i], "createPayment", "failed")
            created == Settled(calls[i], "createOrder", "ok")
        IN  failed # <<>> =>
                /\ created # <<>>
                /\ calls[i][Len(calls[i])].api = "createPayment"
                /\ pc[i] = "done"
                /\ res[i].sent = 1
                /\ res[i].statusCode = 500
                /\ res[i].body = [success |-> FALSE, error |-> ThrownDetail(failed[1].error)]
                /\ \E k \in DOMAIN orders :
                        orders[k].id = created[1].id /\ orders[k].state = "OPEN"
                /\ \A k \in DOMAIN payments : payments[k].orderId # created[1].id

\* a payment failed, its order is on the platform, and the other invocation
\* has been paid since
C5_Witness ==
    \E i, j \in Invocations :
        /\ Settled(calls[i], "createPayment", "failed") # <<>>
        /\ pc[i] = "done"
        /\ Settled(calls[j], "createPayment", "ok") # <<>>
        /\ Len(orders) = 2 /\ Len(payments) = 1

\* the catalog lookup, the customer search (no match), the customer create,
\* the order create and the payment create of the calls cs all succeeded
AllSucceeded(cs) ==
    /\ Settled(cs, "retrieveCatalogObject", "ok") # <<>>
    /\ ~CatalogUnresolved(cs)
    /\ Settled(cs, "searchCustomers", "ok") # <<>>
    /\ Settled(cs, "searchCustomers", "ok")[1].found = 0
    /\ Settled(cs, "createCustomer", "ok") # <<>>
    /\ Settled(cs, "createOrder", "ok") # <<>>
    /\ Settled(cs, "createPayment", "ok") # <<>>

\* C6: a POST whose catalog variation resolves, whose customer search finds
\* no match and whose customer, order and payment creations succeed issues
\* exactly one call of each creation, the payment references the id of the
\* order just created, and the response is 200 {success: true, paymentId,
\* orderId, status} with the values the payment and the order calls returned
C6_Success ==
    \A i \in Invocations :
        AllSucceeded(calls[i]) =>
            LET order == Settled(calls[i], "createOrder", "ok")[1]
                payment == Settled(calls[i], "createPayment", "ok")[1]
            IN  /\ Len(CallsTo(calls[i], "createCustomer")) = 1
                /\ Len(CallsTo(calls[i], "createOrder")) = 1
                /\ Len(CallsTo(calls[i], "createPayment")) = 1
                /\ payment.args.orderId = order.id
                /\ \E k \in DOMAIN payments :
                        payments[k].id = payment.id /\ payments[k].orderId = order.id
                /\ pc[i] = "done"
                /\ res[i].sent = 1
                /\ res[i].statusCode = 200
                /\ res[i].body = [success |-> TRUE, paymentId |-> payment.id,
                                  orderId |-> order.id, status |-> payment.status]

\* two invocations both went through the whole chain, the second order
\* belonging to the first invocation
C6_Witness ==
    \E i, j \in Invocations :
        /\ i < j
        /\ AllSucceeded(calls[i]) /\ AllSucceeded(calls[j])
        /\ res[i].body.orderId = <<"ORDER", 2>>
        /\ res[i].body.paymentId = <<"PAY", 1>>
        /\ res[i].body.status = "APPROVED"

\* the catalog variation of invocation i resolved and its customer
\* resolution is over
CustomerResolved(i) ==
    /\ Settled(calls[i], "retrieveCatalogObject", "ok") # <<>>
    /\ ~CatalogUnresolved(calls[i])
    /\ pc[i] \notin {"catalog", "search", "create"}

\* the customer resolution of invocation i gave no customer: the name was
\* missing, the search failed or the create failed
ResolutionFailed(i) ==
    \/ ~Has(req[i].body, "customerName")
    \/ Settled(calls[i], "searchCustomers", "failed") # <<>>
    \/ Settled(calls[i], "createCustomer", "failed") # <<>>

\* the order and the payment calls of invocation i carry no customer id
NullCustomer(i) ==
    /\ \A k \in DOMAIN calls[i] :
            calls[i][k].api = "createOrder" => calls[i][k].args.order.customerId = Null
    /\ \A k \in DOMAIN calls[i] :
            calls[i][k].api = "createPayment" => calls[i][k].args.customerId = Null

\* C7 as stated: once the catalog variation resolved, whatever the outcome
\* of the customer resolution, the handler goes on to issue the order-create
\* call, with a null customer id when the resolution failed
C7_Original ==
    \A i \in Invocations :
        CustomerResolved(i) =>
            /\ Issued(i, "createOrder")
            /\ ResolutionFailed(i) => NullCustomer(i)

\* C7 as amended: the same for every POST whose body carries an items array;
\* without one, building the order request throws after the customer
\* resolution, so no order-create call is issued and the response is the 500
\* of the catch block
C7_CustomerNeverFails ==
    \A i \in Invocations :
        CustomerResolved(i) =>
            IF Has(req[i].body, "items")
            THEN /\ Issued(i, "createOrder")
                 /\ ResolutionFailed(i) => NullCustomer(i)
            ELSE /\ ~Issued(i, "createOrder")
                 /\ pc[i] = "done"
                 /\ res[i].statusCode = 500

\* one invocation lost its customer to a failed search, the other to a
\* failed create, and both were paid with no customer attached
C7_Witness ==
    \E i, j \in Invocations :
        /\ Settled(calls[i], "searchCustomers", "failed") # <<>>
        /\ Settled(calls[j], "createCustomer", "failed") # <<>>
        /\ Settled(calls[i], "createPayment", "ok") # <<>>
        /\ Settled(calls[j], "createPayment", "ok") # <<>>
        /\ \A k \in DOMAIN payments : payments[k].customerId = Null

\* the place of each remote call in the chain of the handler
Rank(api) ==
    CASE api = "retrieveCatalogObject" -> 1
      [] api = "searchCustomers" -> 2
      [] api = "createCustomer" -> 3
      [] api = "createOrder" -> 4
      [] api = "createPayment" -> 5

\* the k-th call of cs is a required step that failed
RequiredStepFailed(cs, k) ==
    \/ k = 1 /\ cs[1].outcome # "pending" /\ CatalogUnresolved(cs)
    \/ cs[k].api \in {"createOrder", "createPayment"} /\ cs[k].outcome = "failed"

\* C8: the remote calls of one invocation are sequential and ordered: a call
\* is issued only when every earlier call of the invocation has settled (so
\* at most one is in flight), the catalog lookup comes first, then the
\* customer search, the customer create, the order create and the payment
\* create in that order, and no call follows a failed required step
C8_Sequential ==
    \A i \in Invocations :
        LET cs == calls[i]
        IN  /\ \A k \in DOMAIN cs : k < Len(cs) => cs[k].outcome # "pending"
            /\ \A k \in DOMAIN cs :
                    k < Len(cs) => Rank(cs[k].api) < Rank(cs[k + 1].api)
            /\ cs # <<>> => cs[1].api = "retrieveCatalogObject"
            /\ \A k \in DOMAIN cs :
                    cs[k].api = "createCustomer" => cs[k - 1].api = "searchCustomers"
            /\ \A k \in DOMAIN cs : RequiredStepFailed(cs, k) => k = Len(cs)

\* an invocation has its fifth call, the payment, in flight while the other
\* invocation awaits a call of its own
C8_Witness ==
    \E i, j \in Invocations :
        /\ i # j
        /\ Len(calls[i]) = 5 /\ calls[i][5].outcome = "pending"
        /\ calls[j] # <<>> /\ calls[j][Len(calls[j])].outcome = "pending"

\* C10: nothing guards the creation of a customer: when two invocations
\* both had a customer created for the same derived reference id, the
\* platform holds two distinct customer records with that reference id
C10_DuplicateCustomers ==
    \A i, j \in Invocations :
        LET ci == Settled(calls[i], "createCustomer", "ok")
            cj == Settled(calls[j], "createCustomer", "ok")
        IN  (i # j /\ ci # <<>> /\ cj # <<>>
             /\ ci[1].args.referenceId = cj[1].args.referenceId) =>
                /\ ci[1].id # cj[1].id
                /\ \E k, l \in DOMAIN customers :
                        /\ k # l
                        /\ customers[k].id = ci[1].id
                        /\ customers[l].id = cj[1].id
                        /\ customers[k].referenceId = ci[1].args.referenceId
                        /\ customers[l].referenceId = ci[1].args.referenceId

\* two invocations with the same customer name ran concurrently on a
\* platform without that customer: both searches came back empty, both
\* creations succeeded, and the platform holds two records with the same
\* reference id
C10_Witness ==
    \E i, j \in Invocations :
        /\ i # j
        /\ Has(req[i], "body") /\ Has(req[j], "body")
        /\ Has(req[i].body, "customerName") /\ Has(req[j].body, "customerName")
        /\ req[i].body.customerName = req[j].body.customerName
        /\ Settled(calls[i], "searchCustomers", "ok") # <<>>
        /\ Settled(calls[j], "searchCustomers", "ok") # <<>>
        /\ Settled(calls[i], "searchCustomers", "ok")[1].found = 0
        /\ Settled(calls[j], "searchCustomers", "ok")[1].found = 0
        /\ Settled(calls[i], "createCustomer", "ok") # <<>>
        /\ Settled(calls[j], "createCustomer", "ok") # <<>>
        /\ Len(customers) = 2
        /\ customers[1].id # customers[2].id
        /\ customers[1].referenceId = customers[2].referenceId
        /\ customers[1].referenceId = ReferenceId(req[i].body.customerName)

\* the idempotency keys of the creation calls of invocation i, in order
CreationKeys(i) ==
    LET creations == SelectSeq(calls[i], LAMBDA c : c.api \in {"createCustomer", "createPayment"})
        orderings == CallsTo(calls[i], "createOrder")
    IN  [k \in DOMAIN creations |-> creations[k].args.idempotencyKey]
        \o [k \in DOMAIN orderings |-> orderings[k].args.idempotencyKey]

\* the keys of s are pairwise different
AllDifferent(s) == \A k, l \in DOMAIN s : k # l => s[k] # s[l]

\* C11: every creation call carries an idempotency token of its own, so when
\* the same POST payload is submitted twice and both invocations succeed,
\* the platform never answers one with the record of the other: two distinct
\* orders and two distinct payments are created
C11_FreshTokens ==
    /\ \A i, j \in Invocations :
            i < j => AllDifferent(CreationKeys(i) \o CreationKeys(j))
    /\ \A i \in Invocations : AllDifferent(CreationKeys(i))
    /\ \A i, j \in Invocations :
            LET oi == Settled(calls[i], "createOrder", "ok")
                oj == Settled(calls[j], "createOrder", "ok")
                pi == Settled(calls[i], "createPayment", "ok")
                pj == Settled(calls[j], "createPayment", "ok")
            IN  (i # j /\ req[i] = req[j] /\ pi # <<>> /\ pj # <<>>) =>
                    /\ oi[1].id # oj[1].id
                    /\ pi[1].id # pj[1].id
                    /\ \E k, l \in DOMAIN orders :
                            k # l /\ orders[k].id = oi[1].id /\ orders[l].id = oj[1].id
                    /\ \E k, l \in DOMAIN payments :
                            k # l /\ payments[k].id = pi[1].id /\ payments[l].id = pj[1].id

\* the same payload was submitted twice, both invocations were paid, and the
\* platform holds two orders and two payments
C11_Witness ==
    \E i, j \in Invocations :
        /\ i # j
        /\ req[i] = req[j]
        /\ Settled(calls[i], "createPayment", "ok") # <<>>
        /\ Settled(calls[j], "createPayment", "ok") # <<>>
        /\ Len(orders) = 2 /\ orders[1].id # orders[2].id
        /\ Len(payments) = 2 /\ payments[1].id # payments[2].id

\* the key the name is said to derive: lowercased, trimmed, every run of
\* whitespace one underscore
TrimmedKey(customerName) == ReplaceWhitespaceRuns(Trim(ToLowerCase(customerName)))

\* the reference ids invocation i sent to the platform, in the search filter
\* and in the record to create
SentReferenceIds(i) ==
    {c.args.query.filter.referenceId.exact : c \in
        {calls[i][k] : k \in {l \in DOMAIN calls[i] : calls[i][l].api = "searchCustomers"}}}
    \cup {c.args.referenceId : c \in
        {calls[i][k] : k \in {l \in DOMAIN calls[i] : calls[i][l].api = "createCustomer"}}}

\* C12: the reference id sent to the platform, in the search filter and in
\* the created record alike, is the name lowercased, trimmed of leading and
\* trailing whitespace, with every internal run of whitespace collapsed to
\* one underscore: "Jane Q. Public" gives "jane_q._public" and
\* "  Bob   Lee " gives "bob_lee"
C12_TrimmedKey ==
    /\ TrimmedKey(JaneQPublic) =
        <<"j", "a", "n", "e", "_", "q", ".", "_", "p", "u", "b", "l", "i", "c">>
    /\ TrimmedKey(BobLeePadded) = <<"b", "o", "b", "_", "l", "e", "e">>
    /\ \A i \in Invocations :
            (Has(req[i], "body") /\ Has(req[i].body, "customerName")) =>
                \A key \in SentReferenceIds(i) : key = TrimmedKey(req[i].body.customerName)

\* every pair <<decimal value in thousandths, minor units sent>> of the
\* creation calls of invocation i: the base prices of the order's line items
\* and the amount of the payment
SentMoney(i) ==
    LET orderings == CallsTo(calls[i], "createOrder")
        payings == CallsTo(calls[i], "createPayment")
    IN  {<<req[i].body.items[k].price, orderings[1].args.order.lineItems[k].basePriceMoney.amount>> :
            k \in IF orderings = <<>> THEN {} ELSE DOMAIN req[i].body.items}
        \cup {<<req[i].body.amount, payings[1].args.amountMoney.amount>> :
            k \in IF payings = <<>> THEN {} ELSE {1}}

\* the total of the first n line items of the order request of invocation
\* i, in minor units: the base prices sent times the quantities requested
RECURSIVE OrderTotal(_, _)
OrderTotal(i, n) ==
    IF n = 0 THEN 0
    ELSE OrderTotal(i, n - 1)
         + req[i].body.items[n].quantity
           * CallsTo(calls[i], "createOrder")[1].args.order.lineItems[n].basePriceMoney.amount

\* the decimal value times 100, rounded half-up at the cent boundary
HalfUp(thousandths) == (thousandths + 5) \div 10

\* once the order is created the payment call is issued, whatever the amount
PaymentUnchecked ==
    \A i \in Invocations :
        (Settled(calls[i], "createOrder", "ok") # <<>> /\ Has(req[i].body, "amount")) =>
            Issued(i, "createPayment")

\* C13 as stated: every amount sent is the decimal value times 100 rounded
\* half-up at the cent boundary (12.345 gives 1235, 9.999 gives 1000), and
\* the payment amount is never checked against the line items
C13_Original ==
    /\ \A i \in Invocations : \A m \in SentMoney(i) : m[2] = HalfUp(m[1])
    /\ PaymentUnchecked

\* C13: every amount sent is a whole number of minor units, the one nearest
\* to the decimal value times 100; a value exactly halfway between two cents
\* goes to either of them, as the double-precision product falls: 12.345
\* gives 1235 and 9.999 gives 1000, but 1.005 gives 100 and 0.145 gives 14;
\* the payment amount is never checked against the line items
C13_MinorUnits ==
    /\ \A i \in Invocations : \A m \in SentMoney(i) :
            /\ m[2] \in Nat
            /\ 10 * m[2] - 5 <= m[1] /\ m[1] <= 10 * m[2] + 5
            /\ m[1] % 10 # 5 => m[2] = HalfUp(m[1])
            /\ m[1] = 12345 => m[2] = 1235
            /\ m[1] = 9999 => m[2] = 1000
            /\ m[1] = 1005 => m[2] = 100
            /\ m[1] = 145 => m[2] = 14
    /\ PaymentUnchecked

\* a payment of 1.005 was made as 100 minor units for an order of 1000
C13_Witness ==
    \E i \in Invocations :
        /\ <<1005, 100>> \in SentMoney(i)
        /\ Settled(calls[i], "createPayment", "ok") # <<>>
        /\ OrderTotal(i, Len(req[i].body.items)) = 1000

\* the id of the first record of the platform that matches the search of
\* invocation i (records are only ever appended, so it is the first match
\* the search saw)
FirstMatchOf(i) ==
    SearchCustomers(CallsTo(calls[i], "searchCustomers")[1].args)[1].id

\* the search of invocation i succeeded with n matches, for some n in range
SearchFound(i, range) ==
    LET searches == CallsTo(calls[i], "searchCustomers")
    IN  /\ searches # <<>>
        /\ searches[1].outcome = "ok"
        /\ searches[1].found \in range

\* C14: when the customer search succeeds with one or more matches, the id
\* of the first match is the result of the resolution (it goes into the
\* order and the payment) and no customer-create call is issued; a
\* customer-create call is issued only after a search that succeeded with
\* zero matches
C14_SearchHit ==
    \A i \in Invocations :
        /\ SearchFound(i, Nat \ {0}) =>
                /\ ~Issued(i, "createCustomer")
                /\ local[i].customerId = FirstMatchOf(i)
                /\ \A c \in {calls[i][k] : k \in DOMAIN calls[i]} :
                        /\ c.api = "createOrder" => c.args.order.customerId = FirstMatchOf(i)
                        /\ c.api = "createPayment" => c.args.customerId = FirstMatchOf(i)
        /\ Issued(i, "createCustomer") =>
                /\ SearchFound(i, {0})
                /\ \E k \in DOMAIN calls[i] :
                        /\ calls[i][k].api = "searchCustomers"
                        /\ calls[i][k + 1].api = "createCustomer"

\* a search matched two records and the order carries the id of the first
C14_Witness ==
    \E i \in Invocations :
        /\ SearchFound(i, {2})
        /\ Issued(i, "createOrder")
        /\ CallsTo(calls[i], "createOrder")[1].args.order.customerId = <<"CUST", 1>>
        /\ customers[2].id # <<"CUST", 1>>

\* the customer-create calls of invocation i for reference id key
CreatesFor(i, key) ==
    SelectSeq(calls[i], LAMBDA c : c.api = "createCustomer" /\ c.args.referenceId = key)

\* the reference ids for which some customer-create call was issued
CreatedKeys ==
    UNION {{c.args.referenceId : c \in
                {calls[i][k] : k \in {l \in DOMAIN calls[i] :
                                        calls[i][l].api = "createCustomer"}}} :
           i \in Invocations}

\* the name of invocation j derives key and its search has settled with
\* one of outcomes
SearchedFor(j, key, outcomes) ==
    /\ Has(req[j], "body") /\ Has(req[j].body, "customerName")
    /\ ReferenceId(req[j].body.customerName) = key
    /\ CallsTo(calls[j], "searchCustomers") # <<>>
    /\ CallsTo(calls[j], "searchCustomers")[1].outcome \in outcomes

\* invocation j got a search hit, reuses the customer that invocation i
\* created, and creates nothing
Reuses(j, i, key) ==
    /\ SearchFound(j, Nat \ {0})
    /\ ~Issued(j, "createCustomer")
    /\ local[j].customerId = CreatesFor(i, key)[1].id

\* C15 as stated, for invocations that do not overlap: at most one
\* customer-create call is ever issued per reference id, and once a create
\* for a key has succeeded, every later invocation whose name derives the
\* key gets a search hit, reuses that customer id and creates nothing
C15_Original ==
    /\ \A key \in CreatedKeys :
            Cardinality({i \in Invocations : CreatesFor(i, key) # <<>>}) <= 1
    /\ \A i, j \in Invocations : \A key \in CreatedKeys :
            (i < j /\ Settled(CreatesFor(i, key), "createCustomer", "ok") # <<>>
             /\ SearchedFor(j, key, {"ok", "failed"})) => Reuses(j, i, key)

\* C15: when the invocations do not overlap, at most one customer-create
\* call per reference id succeeds, and a further one is issued only after
\* every earlier one for the key failed; once a create for a key has
\* succeeded, every later invocation whose name derives the key and whose
\* search does not fail gets a search hit, reuses that customer id and
\* creates nothing
C15_SequentialReuse ==
    /\ \A i, j \in Invocations : \A key \in CreatedKeys :
            (i < j /\ CreatesFor(i, key) # <<>> /\ CreatesFor(j, key) # <<>>) =>
                CreatesFor(i, key)[1].outcome = "failed"
    /\ \A i, j \in Invocations : \A key \in CreatedKeys :
            (i < j /\ Settled(CreatesFor(i, key), "createCustomer", "ok") # <<>>
             /\ SearchedFor(j, key, {"ok"})) => Reuses(j, i, key)

\* a later invocation found and reused the customer an earlier one created
C15_Witness ==
    \E i, j \in Invocations : \E key \in CreatedKeys :
        /\ i < j
        /\ Settled(CreatesFor(i, key), "createCustomer", "ok") # <<>>
        /\ SearchedFor(j, key, {"ok"})
        /\ Reuses(j, i, key)
        /\ pc[j] = "done"
        /\ Len(customers) = 1

\* the note of a line item as the claim states it
ExpectedNote(item) ==
    IF Has(item, "comment") /\ item.comment # ""
    THEN <<item.name, " - ", item.comment>>
    ELSE <<item.name>>

\* the variations of the configured item as this invocation retrieved them
RetrievedVariations(i) ==
    CallsTo(calls[i], "retrieveCatalogObject")[1].result.object.itemData.variations

\* C16: the order-create request holds one line item per request item, in
\* the same sequence; every line item references the first variation of the
\* configured item as this invocation retrieved it, its quantity is the
\* request quantity as a decimal string, its note is the item name followed
\* by " - " and the comment exactly when the comment is non-empty; the order
\* is submitted in state OPEN
C16_LineItems ==
    \A i \in Invocations :
        \A c \in {calls[i][k] : k \in {l \in DOMAIN calls[i] : calls[i][l].api = "createOrder"}} :
            LET items == req[i].body.items
                lineItems == c.args.order.lineItems
            IN  /\ Len(lineItems) = Len(items)
                /\ c.args.order.state = "OPEN"
                /\ \A k \in DOMAIN items :
                        /\ lineItems[k].catalogObjectId = RetrievedVariations(i)[1].id
                        /\ lineItems[k].catalogObjectId = local[i].itemVariationId
                        /\ lineItems[k].quantity = String(items[k].quantity)
                        /\ items[k].quantity = 2 => lineItems[k].quantity = <<"2">>
                        /\ items[k].quantity = 12 => lineItems[k].quantity = <<"1", "2">>
                        /\ lineItems[k].note = ExpectedNote(items[k])

\* an order of two items was issued: the first with a comment, the second
\* with an empty one, both under the first of two variations
C16_Witness ==
    \E i \in Invocations :
        /\ Issued(i, "createOrder")
        /\ Len(RetrievedVariations(i)) = 2
        /\ LET lineItems == CallsTo(calls[i], "createOrder")[1].args.order.lineItems
           IN  /\ Len(lineItems) = 2
               /\ lineItems[1].note = <<"Tea", " - ", "hot">>
               /\ lineItems[2].note = <<"Scone">>
               /\ lineItems[2].quantity = <<"1", "2">>
               /\ lineItems[1].catalogObjectId = VariationA
               /\ lineItems[2].catalogObjectId = VariationA

\* what the customer resolution of invocation i gave: the id of the created
\* customer, else the id of the first match, else null
Resolution(i) ==
    IF Settled(calls[i], "createCustomer", "ok") # <<>>
    THEN Settled(calls[i], "createCustomer", "ok")[1].id
    ELSE IF SearchFound(i, Nat \ {0}) THEN FirstMatchOf(i) ELSE Null

\* the ids of the orders that invocations other than i created
OrdersOfOthers(i) ==
    UNION {{c.id : c \in {calls[j][k] : k \in {l \in DOMAIN calls[j] :
                            calls[j][l].api = "createOrder" /\ calls[j][l].outcome = "ok"}}} :
           j \in Invocations \ {i}}

\* C17: within one invocation the customer id of the order-create call and
\* of the payment-create call are both the result (possibly null) of this
\* invocation's customer resolution, and the order id of the payment-create
\* call and of the success response is the id that this invocation's
\* order-create call returned, never one of another invocation
C17_Threading ==
    \A i \in Invocations :
        LET orderings == CallsTo(calls[i], "createOrder")
            payings == CallsTo(calls[i], "createPayment")
        IN  /\ orderings # <<>> =>
                    /\ orderings[1].args.order.customerId = Resolution(i)
                    /\ local[i].customerId = Resolution(i)
            /\ payings # <<>> =>
                    /\ orderings # <<>> /\ orderings[1].outcome = "ok"
                    /\ payings[1].args.customerId = orderings[1].args.order.customerId
                    /\ payings[1].args.customerId = Resolution(i)
                    /\ payings[1].args.orderId = orderings[1].id
                    /\ payings[1].args.orderId \notin OrdersOfOthers(i)
            /\ (payings # <<>> /\ payings[1].outcome = "ok") =>
                    /\ res[i].body.orderId = orderings[1].id
                    /\ res[i].body.orderId \notin OrdersOfOthers(i)

\* two invocations were paid while both were under way; each payment names
\* the order and the customer of its own invocation, and one of the
\* invocations has a customer while the other has none
C17_Witness ==
    \E i, j \in Invocations :
        /\ i # j
        /\ Settled(calls[i], "createPayment", "ok") # <<>>
        /\ Settled(calls[j], "createPayment", "ok") # <<>>
        /\ CallsTo(calls[i], "createOrder")[1].id # CallsTo(calls[j], "createOrder")[1].id
        /\ res[i].body.orderId = CallsTo(calls[i], "createPayment")[1].args.orderId
        /\ res[j].body.orderId = CallsTo(calls[j], "createPayment")[1].args.orderId
        /\ Resolution(i) # Null
        /\ CallsTo(calls[i], "createPayment")[1].args.customerId = Resolution(i)
        /\ Resolution(j) = Null
        /\ CallsTo(calls[j], "createPayment")[1].args.customerId = Null

\* every remote call that invocation i issued has returned or failed
AllReturned(i) == \A k \in DOMAIN calls[i] : calls[i][k].outcome # "pending"

\* the request of invocation i is a POST without a body, or with a body
\* that lacks items or customerName
Incomplete(i) ==
    /\ req[i].method = "POST"
    /\ \/ ~Has(req[i], "body")
       \/ ~Has(req[i].body, "items")
       \/ ~Has(req[i].body, "customerName")

\* C18: an invocation all of whose remote calls have returned or failed has
\* ended with exactly one response sent, never none and never two; for a
\* POST whose body is missing or lacks items or customerName that response
\* is the 500 {success: false, error: <detail>}
C18_ExactlyOneResponse ==
    \A i \in Invocations :
        /\ res[i].sent <= 1
        /\ (Started(i) /\ AllReturned(i)) =>
                /\ res[i].sent = 1
                /\ Incomplete(i) =>
                        /\ res[i].statusCode = 500
                        /\ res[i].body.success = FALSE
                        /\ Has(res[i].body, "error")

====
